---- MODULE Spec2Model ----
(***************************************************************************)
(* Model of src/src/main.cpp: the Result<ValueType, ErrorType> class with  *)
(* its Success/Failure factories and Bind, the MutableResult class with    *)
(* its shared payload cell, and the manuscript publishing pipeline of      *)
(* main().                                                                 *)
(***************************************************************************)
EXTENDS Integers, Sequences, FiniteSets, TLC

VARIABLES
    unit,       \* which of the three independent programs is being run
    chain,      \* Result: chain[1] is r, chain[i+1] is chain[i].Bind(f_i)
    made,       \* Result: the factory call that produced chain[1]
    calls,      \* Result: the invocations of step functions, in order
    lastFunc,   \* Result: the step function handed to the latest Bind
    mem,        \* MutableResult: memory cells (caller variables and shared cells)
    objs,       \* MutableResult: the MutableResult objects, in creation order
    mmade,      \* MutableResult: for each object, how it came to be
    mcalls,     \* MutableResult: the member calls issued, in order
    mlog,       \* MutableResult: the invocations of callables, in order
    pc,         \* main: position in main()
    manuscriptId,        \* main: the id read from the console
    publishingPipeline,  \* main: the Result held at the current pipeline position
    stages,     \* main: the pipeline stage functions invoked, in order
    clock       \* main: the value std::time(nullptr) returns next

vars == <<unit, chain, made, calls, lastFunc, mem, objs, mmade, mcalls, mlog,
          pc, manuscriptId, publishingPipeline, stages, clock>>

resultVars == <<chain, made, calls, lastFunc>>
mutableVars == <<mem, objs, mmade, mcalls, mlog>>
mainVars == <<pc, manuscriptId, publishingPipeline, stages, clock>>

----------------------------------------------------------------------------
(* Bounds *)

MaxVal == 1         \* int payloads of the generic chain are 0..MaxVal
MaxChain == 3       \* Bind calls in one chain
MaxObjs == 3        \* MutableResult objects alive
MaxCalls == 2       \* member calls issued on MutableResult objects
MaxNegId == 2       \* the smallest manuscript id typed in is -MaxNegId
MaxId == 43         \* largest manuscript id typed in
MaxClock == 1       \* std::time values are 0..MaxClock

----------------------------------------------------------------------------
(* Types and implicit conversions (std::is_convertible_v) *)

ErrorType == "string"

ScalarTypes == {"int", "bool", "string", "cstr"}

ErrorTexts == {"e1", "e2"}

Dom(t) ==
    CASE t = "int" -> 0..MaxVal
      [] t = "bool" -> BOOLEAN
      [] t = "string" -> ErrorTexts
      [] t = "cstr" -> ErrorTexts

\* std::is_convertible_v<From, To> for the types of the model: every type
\* converts to itself, int and bool convert to each other, a string literal
\* converts to std::string and (as a pointer) to bool.
Convertible(from, to) ==
    \/ from = to
    \/ from = "int" /\ to = "bool"
    \/ from = "bool" /\ to = "int"
    \/ from = "cstr" /\ to = "string"
    \/ from = "cstr" /\ to = "bool"

\* The value an implicit conversion of x to type `to` yields.
Convert(x, to) ==
    CASE x.type = to -> x.val
      [] x.type = "int" /\ to = "bool" -> (x.val # 0)
      [] x.type = "bool" /\ to = "int" -> (IF x.val THEN 1 ELSE 0)
      [] x.type = "cstr" /\ to = "string" -> x.val
      [] x.type = "cstr" /\ to = "bool" -> TRUE

\* A value-initialised object of type t: mValue() / mError().
DefaultManuscript ==
    [id |-> 0, title |-> "", content |-> "", author |-> "", submission_date |-> 0]

DefaultEdited ==
    [id |-> 0, title |-> "", content |-> "", author |-> "",
     editorial_notes |-> <<>>, edit_date |-> 0]

DefaultFormatted ==
    [id |-> 0, title |-> "", formatted_content |-> "", author |-> "",
     format_type |-> "", format_date |-> 0]

DefaultReviewed ==
    [id |-> 0, title |-> "", formatted_content |-> "", author |-> "",
     approved |-> FALSE, review_comments |-> <<>>, review_date |-> 0]

DefaultPublished ==
    [id |-> 0, title |-> "", formatted_content |-> "", author |-> "",
     isbn |-> "", publish_date |-> 0]

Default(t) ==
    CASE t = "int" -> 0
      [] t = "bool" -> FALSE
      [] t = "string" -> ""
      [] t = "Manuscript" -> DefaultManuscript
      [] t = "EditedManuscript" -> DefaultEdited
      [] t = "FormattedManuscript" -> DefaultFormatted
      [] t = "ReviewedManuscript" -> DefaultReviewed
      [] t = "PublishedManuscript" -> DefaultPublished

----------------------------------------------------------------------------
(* Result<ValueType, ErrorType> *)

\* The outcome of an expression that does not compile (ambiguous or empty
\* overload set): no object exists.
IllFormed == [illFormed |-> TRUE]

WellFormed(r) == "mIsSuccess" \in DOMAIN r

\* Result(T&& value), enabled when T converts to ValueType.
ValueCtor(V, x) ==
    [V |-> V, mIsSuccess |-> TRUE, mValue |-> Convert(x, V),
     mError |-> Default(ErrorType)]

\* Result(E&& error), enabled when E converts to ErrorType.
ErrorCtor(V, x) ==
    [V |-> V, mIsSuccess |-> FALSE, mValue |-> Default(V),
     mError |-> Convert(x, ErrorType)]

\* The constructors that survive enable_if for an argument of x's type.
ViableCtors(V, x) ==
    {c \in {"value", "error"} :
        \/ c = "value" /\ Convertible(x.type, V)
        \/ c = "error" /\ Convertible(x.type, ErrorType)}

\* Overload resolution of the expression Result(std::forward<T>(x)): both
\* constructors take T&&, so two viable ones are ambiguous.
Construct(V, x) ==
    IF ViableCtors(V, x) = {"value"} THEN ValueCtor(V, x)
    ELSE IF ViableCtors(V, x) = {"error"} THEN ErrorCtor(V, x)
    ELSE IllFormed

\* Result<V, E>::Success(x)
Success(V, x) == Construct(V, x)

\* Result<V, E>::Failure(x)
Failure(V, x) == Construct(V, x)

IsSuccess(r) == r.mIsSuccess
Value(r) == r.mValue
Error(r) == r.mError

\* Variant of BindStdFunction: the step function is evaluated twice.
BindStdFunction_CallsTwice(r, func, U) ==
    IF r.mIsSuccess
    THEN [ret |-> func[r.mValue], invoked |-> <<r.mValue, r.mValue>>]
    ELSE [ret |-> Failure(U, [type |-> ErrorType, val |-> r.mError]),
          invoked |-> <<>>]

\* r.Bind(func) with func returning Result<U, ErrorType>; `ret` is the
\* returned Result, `invoked` the arguments func was called with.
BindStdFunction(r, func, U) ==
    IF r.mIsSuccess
    THEN [ret |-> func[r.mValue], invoked |-> <<r.mValue>>]
    ELSE [ret |-> Failure(U, [type |-> ErrorType, val |-> r.mError]),
          invoked |-> <<>>]

\* Variant of Bind: the failure branch builds the failure from a fresh ErrorType.
Bind_DropsError(r, func, U) ==
    IF r.mIsSuccess
    THEN [ret |-> func[r.mValue], invoked |-> <<r.mValue>>]
    ELSE [ret |-> Failure(U, [type |-> ErrorType, val |-> Default(ErrorType)]),
          invoked |-> <<>>]

\* Variant of Bind: the tag is not tested, the step function always runs.
Bind_NoShortCircuit(r, func, U) ==
    [ret |-> func[r.mValue], invoked |-> <<r.mValue>>]

\* The template overload of Bind (same body, ResultU deduced from func).
Bind(r, func, U) ==
    IF r.mIsSuccess
    THEN [ret |-> func[r.mValue], invoked |-> <<r.mValue>>]
    ELSE [ret |-> Failure(U, [type |-> ErrorType, val |-> r.mError]),
          invoked |-> <<>>]

\* The value types the generic chain is instantiated with.
ValueTypes == {"int", "bool"}

\* The types of the arguments handed to the factories.
ArgTypes == ScalarTypes

\* The Results a step function of return type Result<U, ErrorType> can return.
ResultSet(U) ==
    {ValueCtor(U, [type |-> U, val |-> v]) : v \in Dom(U)}
        \cup {ErrorCtor(U, [type |-> ErrorType, val |-> e]) : e \in ErrorTexts}

\* The step functions from V to Result<U, ErrorType>.
StepFunctions(V, U) == [Dom(V) -> ResultSet(U)]

\* auto r = Result<V, std::string>::Success(x);
CallSuccess(V, x) ==
    /\ unit = "Result"
    /\ chain = <<>>
    /\ WellFormed(Success(V, x))
    /\ chain' = <<Success(V, x)>>
    /\ made' = [factory |-> "Success", arg |-> x]
    /\ UNCHANGED <<unit, calls, lastFunc, mutableVars, mainVars>>

\* auto r = Result<V, std::string>::Failure(x);
CallFailure(V, x) ==
    /\ unit = "Result"
    /\ chain = <<>>
    /\ WellFormed(Failure(V, x))
    /\ chain' = <<Failure(V, x)>>
    /\ made' = [factory |-> "Failure", arg |-> x]
    /\ UNCHANGED <<unit, calls, lastFunc, mutableVars, mainVars>>

\* The chain grows by one .Bind(func) through the std::function overload.
CallBindStdFunction(U, func) ==
    /\ unit = "Result"
    /\ chain # <<>>
    /\ Len(chain) <= MaxChain
    /\ LET r == chain[Len(chain)]
           b == BindStdFunction(r, func, U)
       IN /\ WellFormed(Failure(U, [type |-> ErrorType, val |-> r.mError]))
          /\ chain' = Append(chain, b.ret)
          /\ calls' = calls \o [k \in 1..Len(b.invoked) |->
                                   [pos |-> Len(chain), arg |-> b.invoked[k]]]
          /\ lastFunc' = func
    /\ UNCHANGED <<unit, made, mutableVars, mainVars>>

\* The chain grows by one .Bind(func) through the template overload.
CallBind(U, func) ==
    /\ unit = "Result"
    /\ chain # <<>>
    /\ Len(chain) <= MaxChain
    /\ LET r == chain[Len(chain)]
           b == Bind(r, func, U)
       IN /\ WellFormed(Failure(U, [type |-> ErrorType, val |-> r.mError]))
          /\ chain' = Append(chain, b.ret)
          /\ calls' = calls \o [k \in 1..Len(b.invoked) |->
                                   [pos |-> Len(chain), arg |-> b.invoked[k]]]
          /\ lastFunc' = func
    /\ UNCHANGED <<unit, made, mutableVars, mainVars>>

----------------------------------------------------------------------------
(* MutableResult<int, std::string> *)

\* The callables handed to InPlaceBind and ReadOnlyBind:
\*   add5  [](int& v) { v += 5; }      mul2  [](int& v) { v *= 2; }
\*   log   [](const int& v) { std::cout << v; }
Funcs == {"add5", "mul2", "log"}

\* The contents of the referenced int after func(ref) returns.
Apply(func, v) ==
    CASE func = "add5" -> v + 5
      [] func = "mul2" -> v * 2
      [] func = "log" -> v

nullptr == 0

\* Variant of MutableSuccess: the shared_ptr designates the caller's variable.
MutableSuccess_Alias(m, a) ==
    [mem |-> m,
     obj |-> [mValue |-> a, mError |-> "", mIsSuccess |-> TRUE]]

\* MutableResult::Success(value): value is a reference to the cell at address
\* a; make_shared copies it into a fresh cell.
MutableSuccess(m, a) ==
    [mem |-> Append(m, [kind |-> "shared", val |-> m[a].val]),
     obj |-> [mValue |-> Len(m) + 1, mError |-> "", mIsSuccess |-> TRUE]]

\* Variant of MutableFailure: the error argument is not stored.
MutableFailure_DropsError(m, error) ==
    [mem |-> m,
     obj |-> [mValue |-> nullptr, mError |-> "", mIsSuccess |-> FALSE]]

\* MutableResult::Failure(error)
MutableFailure(m, error) ==
    [mem |-> m,
     obj |-> [mValue |-> nullptr, mError |-> error, mIsSuccess |-> FALSE]]

\* Variant of MutableCopy: a hand-written copy that leaves the tag at false.
MutableCopy_DropsTag(o) ==
    [mValue |-> o.mValue, mError |-> o.mError, mIsSuccess |-> FALSE]

\* The implicit copy constructor: memberwise, the shared_ptr is copied.
MutableCopy(o) ==
    [mValue |-> o.mValue, mError |-> o.mError, mIsSuccess |-> o.mIsSuccess]

\* Variant of InPlaceBind: func receives a copy of the cell's contents.
InPlaceBind_ByValue(i, func, os, m) ==
    IF os[i].mIsSuccess /\ os[i].mValue # nullptr
    THEN [objs |-> os,
          mem |-> m,
          ret |-> i,
          invoked |-> <<[cell |-> os[i].mValue, arg |-> m[os[i].mValue].val]>>]
    ELSE [objs |-> os, mem |-> m, ret |-> i, invoked |-> <<>>]

\* os[i].InPlaceBind(func): the object table and memory afterwards, the
\* object the returned reference designates, and the invocations of func.
InPlaceBind(i, func, os, m) ==
    IF os[i].mIsSuccess /\ os[i].mValue # nullptr
    THEN [objs |-> os,
          mem |-> [m EXCEPT ![os[i].mValue].val = Apply(func, @)],
          ret |-> i,
          invoked |-> <<[cell |-> os[i].mValue, arg |-> m[os[i].mValue].val]>>]
    ELSE [objs |-> os, mem |-> m, ret |-> i, invoked |-> <<>>]

\* os[i].ReadOnlyBind(func): *mValue of a const shared_ptr<int> is an int&,
\* so func receives the same mutable lvalue as in InPlaceBind.
ReadOnlyBind(i, func, os, m) ==
    IF os[i].mIsSuccess /\ os[i].mValue # nullptr
    THEN [objs |-> os,
          mem |-> [m EXCEPT ![os[i].mValue].val = Apply(func, @)],
          ret |-> i,
          invoked |-> <<[cell |-> os[i].mValue, arg |-> m[os[i].mValue].val]>>]
    ELSE [objs |-> os, mem |-> m, ret |-> i, invoked |-> <<>>]

MutableIsSuccess(o) == o.mIsSuccess
MutableValue(o, m) == m[o.mValue].val
MutableError(o) == o.mError

\* int x = v; auto m = MutableResult<int, std::string>::Success(x);
CallMutableSuccess(v) ==
    /\ unit = "MutableResult"
    /\ Len(objs) < MaxObjs
    /\ LET withArg == Append(mem, [kind |-> "local", val |-> v])
           s == MutableSuccess(withArg, Len(withArg))
       IN /\ mem' = s.mem
          /\ objs' = Append(objs, s.obj)
          /\ mmade' = Append(mmade, [how |-> "Success", origin |-> Len(objs) + 1,
                                     arg |-> v, argAddr |-> Len(withArg)])
    /\ UNCHANGED <<unit, mcalls, mlog, resultVars, mainVars>>

\* auto m = MutableResult<int, std::string>::Failure(e);
CallMutableFailure(e) ==
    /\ unit = "MutableResult"
    /\ Len(objs) < MaxObjs
    /\ LET s == MutableFailure(mem, e)
       IN /\ mem' = s.mem
          /\ objs' = Append(objs, s.obj)
          /\ mmade' = Append(mmade, [how |-> "Failure", origin |-> Len(objs) + 1,
                                     arg |-> e, argAddr |-> nullptr])
    /\ UNCHANGED <<unit, mcalls, mlog, resultVars, mainVars>>

\* auto c = objs[i];
CallCopy(i) ==
    /\ unit = "MutableResult"
    /\ Len(objs) < MaxObjs
    /\ i \in DOMAIN objs
    /\ objs' = Append(objs, MutableCopy(objs[i]))
    /\ mmade' = Append(mmade, [how |-> "copy", origin |-> mmade[i].origin,
                               arg |-> mmade[i].arg, argAddr |-> mmade[i].argAddr])
    /\ UNCHANGED <<unit, mem, mcalls, mlog, resultVars, mainVars>>

\* objs[i].InPlaceBind(func);
CallInPlaceBind(i, func) ==
    /\ unit = "MutableResult"
    /\ Len(mcalls) < MaxCalls
    /\ i \in DOMAIN objs
    /\ LET b == InPlaceBind(i, func, objs, mem)
       IN /\ objs' = b.objs
          /\ mem' = b.mem
          /\ mcalls' = Append(mcalls, [op |-> "InPlaceBind", obj |-> i,
                                       func |-> func, ret |-> b.ret])
          /\ mlog' = mlog \o [k \in 1..Len(b.invoked) |->
                                 [call |-> Len(mcalls) + 1, obj |-> i, func |-> func,
                                  cell |-> b.invoked[k].cell, arg |-> b.invoked[k].arg]]
    /\ mmade' = [k \in DOMAIN objs' |-> IF k \in DOMAIN mmade THEN mmade[k]
                    ELSE [how |-> "copy", origin |-> mmade[i].origin,
                          arg |-> mmade[i].arg, argAddr |-> mmade[i].argAddr]]
    /\ UNCHANGED <<unit, resultVars, mainVars>>

\* objs[i].ReadOnlyBind(func);
CallReadOnlyBind(i, func) ==
    /\ unit = "MutableResult"
    /\ Len(mcalls) < MaxCalls
    /\ i \in DOMAIN objs
    /\ LET b == ReadOnlyBind(i, func, objs, mem)
       IN /\ objs' = b.objs
          /\ mem' = b.mem
          /\ mcalls' = Append(mcalls, [op |-> "ReadOnlyBind", obj |-> i,
                                       func |-> func, ret |-> b.ret])
          /\ mlog' = mlog \o [k \in 1..Len(b.invoked) |->
                                 [call |-> Len(mcalls) + 1, obj |-> i, func |-> func,
                                  cell |-> b.invoked[k].cell, arg |-> b.invoked[k].arg]]
    /\ mmade' = [k \in DOMAIN objs' |-> IF k \in DOMAIN mmade THEN mmade[k]
                    ELSE [how |-> "copy", origin |-> mmade[i].origin,
                          arg |-> mmade[i].arg, argAddr |-> mmade[i].argAddr]]
    /\ UNCHANGED <<unit, resultVars, mainVars>>

----------------------------------------------------------------------------
(* The manuscript publishing pipeline *)

Digit(d) ==
    CASE d = 0 -> "0" [] d = 1 -> "1" [] d = 2 -> "2" [] d = 3 -> "3"
      [] d = 4 -> "4" [] d = 5 -> "5" [] d = 6 -> "6" [] d = 7 -> "7"
      [] d = 8 -> "8" [] d = 9 -> "9"

RECURSIVE Digits(_)
Digits(n) == IF n < 10 THEN Digit(n) ELSE Digits(n \div 10) \o Digit(n % 10)

\* std::to_string(int): the decimal numeral, with a minus sign when negative.
to_string(n) == IF n < 0 THEN "-" \o Digits(0 - n) ELSE Digits(n)

\* The Result type of each stage is Result<T, std::string> for a struct T.
Obj(T, v) == [type |-> T, val |-> v]

\* Variant of FetchManuscript: the id test is id < 0.
FetchManuscript_AcceptsZero(id, now) ==
    IF id < 0
    THEN Failure("Manuscript", Obj("cstr", "Invalid manuscript ID"))
    ELSE Success("Manuscript",
                 Obj("Manuscript",
                     [id |-> id,
                      title |-> "The Art of Programming",
                      content |-> "Initial content...",
                      author |-> "John Doe",
                      submission_date |-> now]))

FetchManuscript(id, now) ==
    IF id <= 0
    THEN Failure("Manuscript", Obj("cstr", "Invalid manuscript ID"))
    ELSE Success("Manuscript",
                 Obj("Manuscript",
                     [id |-> id,
                      title |-> "The Art of Programming",
                      content |-> "Initial content...",
                      author |-> "John Doe",
                      submission_date |-> now]))

EditManuscript(m, now) ==
    IF m.content = ""
    THEN Failure("EditedManuscript", Obj("cstr", "Empty manuscript content"))
    ELSE Success("EditedManuscript",
                 Obj("EditedManuscript",
                     [id |-> m.id,
                      title |-> m.title,
                      content |-> m.content \o "\nEdited content...",
                      author |-> m.author,
                      editorial_notes |-> <<"Fixed grammar", "Improved structure">>,
                      edit_date |-> now]))

FormatManuscript(em, now) ==
    IF em.editorial_notes = <<>>
    THEN Failure("FormattedManuscript", Obj("cstr", "No editorial notes found"))
    ELSE Success("FormattedManuscript",
                 Obj("FormattedManuscript",
                     [id |-> em.id,
                      title |-> em.title,
                      formatted_content |->
                          em.content \o "\nFormatted according to style guide...",
                      author |-> em.author,
                      format_type |-> "IEEE",
                      format_date |-> now]))

ReviewManuscript(fm, now) ==
    IF fm.format_type # "IEEE"
    THEN Failure("ReviewedManuscript", Obj("cstr", "Invalid format type"))
    ELSE Success("ReviewedManuscript",
                 Obj("ReviewedManuscript",
                     [id |-> fm.id,
                      title |-> fm.title,
                      formatted_content |-> fm.formatted_content,
                      author |-> fm.author,
                      approved |-> TRUE,
                      review_comments |-> <<"Excellent work", "Ready for publication">>,
                      review_date |-> now]))

PublishManuscript(rm, now) ==
    IF ~rm.approved
    THEN Failure("PublishedManuscript", Obj("cstr", "Manuscript not approved"))
    ELSE Success("PublishedManuscript",
                 Obj("PublishedManuscript",
                     [id |-> rm.id,
                      title |-> rm.title,
                      formatted_content |-> rm.formatted_content,
                      author |-> rm.author,
                      isbn |-> "ISBN-" \o to_string(rm.id) \o "-2023",
                      publish_date |-> now]))

\* No Result has been constructed yet.
NoResult == [none |-> TRUE]

\* std::cin >> manuscriptId;
ReadId ==
    /\ unit = "main"
    /\ pc = "read"
    /\ \E id \in (0 - MaxNegId)..MaxId : manuscriptId' = id
    /\ pc' = "fetch"
    /\ UNCHANGED <<unit, publishingPipeline, stages, clock, resultVars, mutableVars>>

\* FetchManuscript(manuscriptId)
Fetch ==
    /\ unit = "main"
    /\ pc = "fetch"
    /\ publishingPipeline' = FetchManuscript(manuscriptId, clock)
    /\ pc' = "edit"
    /\ UNCHANGED <<unit, manuscriptId, stages, clock, resultVars, mutableVars>>

\* .Bind(EditManuscript)
BindEdit ==
    /\ unit = "main"
    /\ pc = "edit"
    /\ LET r == publishingPipeline
           b == Bind(r, [m \in {r.mValue} |-> EditManuscript(m, clock)],
                     "EditedManuscript")
       IN /\ publishingPipeline' = b.ret
          /\ stages' = stages \o [k \in 1..Len(b.invoked) |-> "EditManuscript"]
    /\ pc' = "format"
    /\ UNCHANGED <<unit, manuscriptId, clock, resultVars, mutableVars>>

\* .Bind(FormatManuscript)
BindFormat ==
    /\ unit = "main"
    /\ pc = "format"
    /\ LET r == publishingPipeline
           b == Bind(r, [m \in {r.mValue} |-> FormatManuscript(m, clock)],
                     "FormattedManuscript")
       IN /\ publishingPipeline' = b.ret
          /\ stages' = stages \o [k \in 1..Len(b.invoked) |-> "FormatManuscript"]
    /\ pc' = "review"
    /\ UNCHANGED <<unit, manuscriptId, clock, resultVars, mutableVars>>

\* .Bind(ReviewManuscript)
BindReview ==
    /\ unit = "main"
    /\ pc = "review"
    /\ LET r == publishingPipeline
           b == Bind(r, [m \in {r.mValue} |-> ReviewManuscript(m, clock)],
                     "ReviewedManuscript")
       IN /\ publishingPipeline' = b.ret
          /\ stages' = stages \o [k \in 1..Len(b.invoked) |-> "ReviewManuscript"]
    /\ pc' = "publish"
    /\ UNCHANGED <<unit, manuscriptId, clock, resultVars, mutableVars>>

\* .Bind(PublishManuscript)
BindPublish ==
    /\ unit = "main"
    /\ pc = "publish"
    /\ LET r == publishingPipeline
           b == Bind(r, [m \in {r.mValue} |-> PublishManuscript(m, clock)],
                     "PublishedManuscript")
       IN /\ publishingPipeline' = b.ret
          /\ stages' = stages \o [k \in 1..Len(b.invoked) |-> "PublishManuscript"]
    /\ pc' = "report"
    /\ UNCHANGED <<unit, manuscriptId, clock, resultVars, mutableVars>>

\* if (publishingPipeline.IsSuccess()) ... else ...; return 0;
Report ==
    /\ unit = "main"
    /\ pc = "report"
    /\ pc' = "done"
    /\ UNCHANGED <<unit, manuscriptId, publishingPipeline, stages, clock,
                   resultVars, mutableVars>>

\* Wall-clock time advances between two calls of std::time.
Tick ==
    /\ unit = "main"
    /\ pc \notin {"read", "done"}
    /\ clock < MaxClock
    /\ clock' = clock + 1
    /\ UNCHANGED <<unit, pc, manuscriptId, publishingPipeline, stages,
                   resultVars, mutableVars>>

----------------------------------------------------------------------------
(* The specification *)

Units == {"Result", "MutableResult", "main"}

Init ==
    /\ unit \in Units
    /\ chain = <<>>
    /\ made = [factory |-> "none"]
    /\ calls = <<>>
    /\ lastFunc = <<>>
    /\ mem = <<>>
    /\ objs = <<>>
    /\ mmade = <<>>
    /\ mcalls = <<>>
    /\ mlog = <<>>
    /\ pc = "read"
    /\ manuscriptId = 0
    /\ publishingPipeline = NoResult
    /\ stages = <<>>
    /\ clock = 0

Next ==
    \/ \E V \in ValueTypes, t \in ArgTypes : \E v \in Dom(t) :
           CallSuccess(V, [type |-> t, val |-> v])
    \/ \E V \in ValueTypes, t \in ArgTypes : \E v \in Dom(t) :
           CallFailure(V, [type |-> t, val |-> v])
    \/ /\ chain # <<>>
       /\ \E U \in ValueTypes : \E func \in StepFunctions(chain[Len(chain)].V, U) :
              CallBindStdFunction(U, func)
    \/ /\ chain # <<>>
       /\ \E U \in ValueTypes : \E func \in StepFunctions(chain[Len(chain)].V, U) :
              CallBind(U, func)
    \/ \E v \in 0..MaxVal : CallMutableSuccess(v)
    \/ \E e \in ErrorTexts : CallMutableFailure(e)
    \/ \E i \in DOMAIN objs : CallCopy(i)
    \/ \E i \in DOMAIN objs, func \in Funcs : CallInPlaceBind(i, func)
    \/ \E i \in DOMAIN objs, func \in Funcs : CallReadOnlyBind(i, func)
    \/ ReadId
    \/ Fetch
    \/ BindEdit
    \/ BindFormat
    \/ BindReview
    \/ BindPublish
    \/ Report
    \/ Tick

Spec == Init /\ [][Next]_vars

----------------------------------------------------------------------------
(* Properties of Result *)

\* The positions of the chain whose Result is a failure.
FailedAt == {k \in DOMAIN chain : ~IsSuccess(chain[k])}

\* The first failing element of the chain (r itself when it is 1).
FirstFailure == CHOOSE k \in FailedAt : \A j \in FailedAt : k <= j

\* The invocations made by the Bind applied to chain[i].
CallsAt(i) == {k \in DOMAIN calls : calls[k].pos = i}

\* C1: binding a failure-tagged Result returns a failure-tagged Result that
\* holds exactly the same error, and the step function is not invoked.
C1_FailurePropagates ==
    \A i \in DOMAIN chain :
        (i < Len(chain) /\ ~IsSuccess(chain[i])) =>
            /\ ~IsSuccess(chain[i + 1])
            /\ Error(chain[i + 1]) = Error(chain[i])
            /\ CallsAt(i) = {}

C1_Witness ==
    /\ Len(chain) >= 2
    /\ made.factory = "Failure"
    /\ ~IsSuccess(chain[1])
    /\ Error(chain[1]) = "e2"
    /\ Error(chain[2]) = "e2"

\* C2: binding a success-tagged Result returns what the step function returns
\* for the held value, and the step function is invoked exactly once, with
\* the held value.
C2_BindAppliesStep ==
    (Len(chain) >= 2 /\ IsSuccess(chain[Len(chain) - 1])) =>
        LET r == chain[Len(chain) - 1]
        IN /\ chain[Len(chain)] = lastFunc[Value(r)]
           /\ Cardinality(CallsAt(Len(chain) - 1)) = 1
           /\ \A k \in CallsAt(Len(chain) - 1) : calls[k].arg = Value(r)

\* A type-changing Bind: an int success bound to a step returning a bool success.
C2_Witness ==
    /\ Len(chain) >= 2
    /\ chain[1].V = "int" /\ IsSuccess(chain[1]) /\ Value(chain[1]) = 1
    /\ chain[2].V = "bool" /\ IsSuccess(chain[2]) /\ Value(chain[2]) = TRUE

\* C3: the steps of a chain run left to right, each at most once and only
\* while everything before it succeeded; after the first failure no step
\* runs and the chain ends in a failure holding the first failure's error.
C3_ShortCircuit ==
    /\ \A k \in DOMAIN calls : \A l \in DOMAIN calls :
           k < l => calls[k].pos < calls[l].pos
    /\ \A k \in DOMAIN calls : \A j \in 1..calls[k].pos : IsSuccess(chain[j])
    /\ FailedAt # {} =>
           /\ \A k \in DOMAIN calls : calls[k].pos < FirstFailure
           /\ ~IsSuccess(chain[Len(chain)])
           /\ Error(chain[Len(chain)]) = Error(chain[FirstFailure])

\* Success(x).Bind(f1).Bind(f2).Bind(f3) with f1 failing.
C3_Witness ==
    /\ Len(chain) = 4
    /\ IsSuccess(chain[1])
    /\ FailedAt = {2, 3, 4}
    /\ Len(calls) = 1
    /\ Error(chain[4]) = "e1"

\* C4: the factory that was called decides the tag: Failure(x) is
\* failure-tagged and holds x as its error, Success(x) is success-tagged and
\* holds x as its value.
C4_FactoryDecidesTag ==
    chain # <<>> =>
        /\ made.factory = "Failure" =>
               /\ ~IsSuccess(chain[1])
               /\ Error(chain[1]) = Convert(made.arg, ErrorType)
        /\ made.factory = "Success" =>
               /\ IsSuccess(chain[1])
               /\ Value(chain[1]) = Convert(made.arg, chain[1].V)

----------------------------------------------------------------------------
(* Properties of MutableResult *)

RECURSIVE ApplyAll(_, _)
\* v after the callables of fs were applied to it one after the other.
ApplyAll(v, fs) == IF fs = <<>> THEN v ELSE ApplyAll(Apply(Head(fs), v), Tail(fs))

\* The member calls issued on objects that stem from the factory call o.
CallsOfOrigin(o) ==
    LET Stems(c) == mmade[c.obj].origin = o IN SelectSeq(mcalls, Stems)

\* The invocations made on behalf of objects that stem from the factory call o.
LogOfOrigin(o) ==
    LET Stems(c) == mmade[c.obj].origin = o IN SelectSeq(mlog, Stems)

FuncsOf(cs) == [k \in DOMAIN cs |-> cs[k].func]

\* C5: chained InPlaceBind calls on a success-tagged m each return m itself,
\* invoke their callable exactly once, in order, on m's one cell, and leave
\* in m the value g_n(...g_1(v0)); Success(0), += 5, *= 2 gives 10.
C5_InPlaceChain ==
    \A i \in DOMAIN objs :
        LET cs == CallsOfOrigin(i)
            lg == LogOfOrigin(i)
        IN (/\ mmade[i].how = "Success"
            /\ \A k \in DOMAIN cs : cs[k].op = "InPlaceBind" /\ cs[k].obj = i) =>
               /\ \A k \in DOMAIN cs : cs[k].ret = i
               /\ Len(lg) = Len(cs)
               /\ \A k \in DOMAIN lg :
                      /\ lg[k].func = cs[k].func
                      /\ lg[k].obj = i
                      /\ lg[k].cell = objs[i].mValue
                      /\ lg[k].arg = ApplyAll(mmade[i].arg, SubSeq(FuncsOf(cs), 1, k - 1))
               /\ MutableValue(objs[i], mem) = ApplyAll(mmade[i].arg, FuncsOf(cs))
               /\ (mmade[i].arg = 0 /\ FuncsOf(cs) = <<"add5", "mul2">>) =>
                      MutableValue(objs[i], mem) = 10

C5_Witness ==
    /\ objs # <<>>
    /\ mmade[1].how = "Success"
    /\ mmade[1].arg = 0
    /\ mcalls = <<[op |-> "InPlaceBind", obj |-> 1, func |-> "add5", ret |-> 1],
                  [op |-> "InPlaceBind", obj |-> 1, func |-> "mul2", ret |-> 1]>>
    /\ MutableValue(objs[1], mem) = 10

\* C6: a MutableResult made by Failure(e) stays failure-tagged with error e
\* whatever InPlaceBind and ReadOnlyBind calls are made on it, the callables
\* are never invoked, and no value cell exists for it.
C6_FailureNoOp ==
    /\ \A i \in DOMAIN objs :
           mmade[i].how = "Failure" =>
               /\ ~MutableIsSuccess(objs[i])
               /\ MutableError(objs[i]) = mmade[i].arg
               /\ objs[i].mValue = nullptr
               /\ \A k \in DOMAIN mlog : mlog[k].obj # i
    /\ Cardinality({a \in DOMAIN mem : mem[a].kind = "shared"})
           = Cardinality({i \in DOMAIN objs : mmade[i].how = "Success"})

C6_Witness ==
    /\ objs # <<>>
    /\ mmade[1].how = "Failure"
    /\ mmade[1].arg = "e1"
    /\ Len(mcalls) = 2
    /\ mcalls[1] = [op |-> "InPlaceBind", obj |-> 1, func |-> "add5", ret |-> 1]
    /\ mcalls[2].op = "ReadOnlyBind" /\ mcalls[2].obj = 1
    /\ MutableError(objs[1]) = "e1"

\* C7: when only copies and InPlaceBind calls are made, all copies that stem
\* from one Success call read the same value, namely the initial value with
\* the callables bound on those copies (and on no others) applied, objects
\* of different Success calls use different cells, and the variable handed
\* to Success keeps its value.
C7_CopiesShareCell ==
    (\A k \in DOMAIN mcalls : mcalls[k].op = "InPlaceBind") =>
        \A i \in DOMAIN objs :
            MutableIsSuccess(objs[i]) =>
                /\ \A j \in DOMAIN objs :
                       /\ mmade[j].origin = mmade[i].origin =>
                              /\ MutableIsSuccess(objs[j])
                              /\ MutableValue(objs[j], mem) = MutableValue(objs[i], mem)
                       /\ (MutableIsSuccess(objs[j]) /\ mmade[j].origin # mmade[i].origin)
                              => objs[j].mValue # objs[i].mValue
                /\ MutableValue(objs[i], mem)
                       = ApplyAll(mmade[i].arg, FuncsOf(CallsOfOrigin(mmade[i].origin)))
                /\ mem[mmade[i].argAddr].kind = "local"
                /\ mem[mmade[i].argAddr].val = mmade[i].arg

\* Success(1), a copy of it, a second Success(1); add5 bound on the copy.
C7_Witness ==
    /\ Len(objs) = 3
    /\ mmade[1].how = "Success" /\ mmade[1].arg = 1
    /\ mmade[2].how = "copy" /\ mmade[2].origin = 1
    /\ mmade[3].how = "Success" /\ mmade[3].arg = 1
    /\ mcalls = <<[op |-> "InPlaceBind", obj |-> 2, func |-> "add5", ret |-> 2]>>
    /\ MutableValue(objs[1], mem) = 6
    /\ MutableValue(objs[2], mem) = 6
    /\ MutableValue(objs[3], mem) = 1

\* C8: a ReadOnlyBind call leaves the value of every success-tagged
\* MutableResult as it was.
C8_ReadOnlyBindKeepsValue ==
    [][(/\ Len(mcalls') = Len(mcalls) + 1
        /\ mcalls'[Len(mcalls')].op = "ReadOnlyBind") =>
           \A i \in DOMAIN objs :
               MutableIsSuccess(objs[i]) =>
                   MutableValue(objs'[i], mem') = MutableValue(objs[i], mem)]_vars

\* C9: no operation changes the tag of an existing Result or MutableResult;
\* Bind leaves the Results already in the chain as they are; a MutableResult
\* keeps its error and its cell, a copy has the tag of its source, and the
\* only memory that changes is the cell of a success-tagged MutableResult.
C9_TagImmutable ==
    [][/\ \A k \in DOMAIN chain : k \in DOMAIN chain' /\ chain'[k] = chain[k]
       /\ \A i \in DOMAIN objs : i \in DOMAIN objs' /\ objs'[i] = objs[i]
       /\ \A i \in DOMAIN objs' :
              MutableIsSuccess(objs'[i])
                  = MutableIsSuccess(objs'[mmade'[i].origin])
       /\ \A a \in DOMAIN mem :
              mem'[a] # mem[a] =>
                  /\ mem[a].kind = "shared"
                  /\ mem'[a].kind = "shared"
                  /\ \E i \in DOMAIN objs :
                         MutableIsSuccess(objs[i]) /\ objs[i].mValue = a]_vars

\* A success-tagged MutableResult and its copy after a mutating bind.
C9_Witness ==
    /\ Len(objs) >= 2
    /\ mmade[2].how = "copy"
    /\ MutableIsSuccess(objs[1]) /\ MutableIsSuccess(objs[2])
    /\ mlog # <<>>
    /\ MutableValue(objs[2], mem) # mmade[1].arg

----------------------------------------------------------------------------
(* Properties of the publishing pipeline *)

\* The decimal numeral of a number below 100, digit by digit.
Numeral(n) == IF n >= 10 THEN Digit(n \div 10) \o Digit(n % 10) ELSE Digit(n)

AllStages ==
    <<"EditManuscript", "FormatManuscript", "ReviewManuscript", "PublishManuscript">>

\* The stages that have run when main() is at position p and none failed.
StagesBefore(p) ==
    CASE p = "edit" -> 0 [] p = "format" -> 1 [] p = "review" -> 2
      [] p = "publish" -> 3 [] p = "report" -> 4 [] p = "done" -> 4

\* C10: the pipeline's outcome depends on the id alone: an id <= 0 ends in
\* the failure "Invalid manuscript ID" with no later stage invoked; an id > 0
\* runs edit, format, review, publish once each, in this order, all of them
\* succeeding, and ends in a success with that id and isbn "ISBN-<id>-2023".
C10_PipelineOutcome ==
    pc \notin {"read", "fetch"} =>
        /\ manuscriptId <= 0 =>
               /\ ~IsSuccess(publishingPipeline)
               /\ Error(publishingPipeline) = "Invalid manuscript ID"
               /\ stages = <<>>
        /\ manuscriptId > 0 =>
               /\ IsSuccess(publishingPipeline)
               /\ Value(publishingPipeline).id = manuscriptId
               /\ stages = SubSeq(AllStages, 1, StagesBefore(pc))
        /\ (manuscriptId > 0 /\ manuscriptId < 100 /\ pc = "done") =>
               Value(publishingPipeline).isbn
                   = "ISBN-" \o Numeral(manuscriptId) \o "-2023"
        /\ (manuscriptId = 42 /\ pc = "done") =>
               Value(publishingPipeline).isbn = "ISBN-42-2023"

C10_Witness ==
    /\ pc = "done"
    /\ manuscriptId = 42
    /\ stages = AllStages
    /\ IsSuccess(publishingPipeline)
    /\ Value(publishingPipeline).isbn = "ISBN-42-2023"

====
